---- MODULE Spec2Model ----
(***************************************************************************)
(* Bar chart race animation (animation.py): frame selection, the animate   *)
(* callbacks of save_animation and show_animation, the FuncAnimation       *)
(* drivers behind anim.save and plt.show, and the __main__ block that runs *)
(* the export in a background Process next to the interactive display.     *)
(***************************************************************************)
EXTENDS Integers, Sequences, FiniteSets, TLC

\* ------------------------------------------------------------------ bounds
MaxRows == 3        \* rows of a table given to a whole run
MaxSelRows == 4     \* rows of a table given to the frame selection alone
MaxN == 3           \* largest top-N count tried on the frame selection alone
MaxShown == 4       \* timer steps of the interactive display that are followed

\* --------------------------------------------------------- program constants
TopN == 10          \* nlargest(10, ...)
ViridisN == 256     \* entries of matplotlib's 'viridis' colormap

Times == {1, 2}
Locations == {"A", "B"}
Metrics == {1, 2}

Rows == [Time : Times, Location : Locations, Metric : Metrics]

RECURSIVE SeqsUpTo(_, _)
SeqsUpTo(S, n) ==
    IF n = 0 THEN {<<>>}
    ELSE LET shorter == SeqsUpTo(S, n - 1)
         IN  shorter \cup {Append(s, x) : s \in {t \in shorter : Len(t) = n - 1}, x \in S}

\* Tables in which a (Time, Location) pair occurs at most once: the shape of the
\* data the program is run on (one population figure per country and year).
Keyed(df) ==
    \A i, j \in 1..Len(df) :
        (df[i].Time = df[j].Time /\ df[i].Location = df[j].Location) => i = j

Range(s) == {s[i] : i \in 1..Len(s)}

Min(a, b) == IF a <= b THEN a ELSE b

\* ------------------------------------------------------------ frame selection
\* df[df['Time'] == frame]: the boolean mask keeps the matching rows in table
\* order; a selection is the sequence of their row indices.
RECURSIVE FilterTime(_, _)
FilterTime(df, frame) ==
    IF df = <<>> THEN <<>>
    ELSE LET rest == FilterTime(SubSeq(df, 1, Len(df) - 1), frame)
         IN  IF df[Len(df)].Time = frame THEN Append(rest, Len(df)) ELSE rest

\* Stable insertion of row index i into a selection sorted by Metric descending:
\* i goes after every row whose Metric is >= its own (keep = 'first').
RECURSIVE InsertDesc(_, _, _)
InsertDesc(df, s, i) ==
    IF s = <<>> THEN <<i>>
    ELSE IF df[Head(s)].Metric >= df[i].Metric
         THEN <<Head(s)>> \o InsertDesc(df, Tail(s), i)
         ELSE <<i>> \o s

\* Faulty variant of InsertDesc: ties go before the rows already placed
\* (keep = 'last').
RECURSIVE InsertDescLast(_, _, _)
InsertDescLast(df, s, i) ==
    IF s = <<>> THEN <<i>>
    ELSE IF df[Head(s)].Metric > df[i].Metric
         THEN <<Head(s)>> \o InsertDescLast(df, Tail(s), i)
         ELSE <<i>> \o s

RECURSIVE SortDescLast(_, _)
SortDescLast(df, idx) ==
    IF idx = <<>> THEN <<>>
    ELSE InsertDescLast(df, SortDescLast(df, SubSeq(idx, 1, Len(idx) - 1)), idx[Len(idx)])

\* The selection sorted by Metric descending, rows of equal Metric kept in the
\* order they have in the selection (a stable sort).
RECURSIVE SortDesc(_, _)
SortDesc(df, idx) ==
    IF idx = <<>> THEN <<>>
    ELSE InsertDesc(df, SortDesc(df, SubSeq(idx, 1, Len(idx) - 1)), idx[Len(idx)])

Head_n(s, n) == SubSeq(s, 1, Min(n, Len(s)))

\* Faulty variant of nlargest: the sort without the cut to n rows.
nlargest_nocut(df, idx, n) == SortDesc(df, idx)

\* Faulty variant of nlargest: ties resolved towards the later row.
nlargest_keeplast(df, idx, n) ==
    IF n <= 0 THEN <<>> ELSE Head_n(SortDescLast(df, idx), n)

\* DataFrame.nlargest(n, 'TPopulation1Jan'), keep = 'first': the n rows of the
\* selection with the greatest Metric, descending, ties in table order; no row
\* for n <= 0.
nlargest(df, idx, n) ==
    IF n <= 0 THEN <<>> ELSE Head_n(SortDesc(df, idx), n)

\* The two statements every animate step starts its data work with.
selectTopN(df, frame, n) == nlargest(df, FilterTime(df, frame), n)

\* ------------------------------------------------------------------- canvas
\* An Axes: what ax.clear() leaves, and what the calls of one animate step add.
\* ops lists the calls made on the axes since (and including) the last clear.
BlankAx ==
    [grid |-> "default", styled |-> FALSE, year |-> <<>>, bars |-> <<>>,
     labels |-> <<>>, title |-> <<>>, ops |-> <<>>]

\* ax.clear(): the axes are rebuilt from the process-wide rcParams (rc).
clear(ax, rc) == [BlankAx EXCEPT !.grid = rc, !.ops = <<"clear">>]

\* setup_plotstyle(ax): spines and ticks hidden on the axes. Its first statement,
\* sns.set_style("whitegrid"), changes the rcParams of the calling process.
setup_plotstyle(ax) ==
    [ax EXCEPT !.styled = TRUE, !.ops = Append(@, "setup_plotstyle")]

set_style(rc) == "whitegrid"

\* setup_year(ax, year): the year text at (0.9, 0.05) in axes coordinates.
setup_year(ax, year) ==
    [ax EXCEPT !.year = <<year>>, !.ops = Append(@, "setup_year")]

\* Hue levels of a selection: its Location values in order of first appearance.
RECURSIVE Levels(_, _)
Levels(df, top) ==
    IF top = <<>> THEN <<>>
    ELSE LET before == Levels(df, SubSeq(top, 1, Len(top) - 1))
             loc == df[top[Len(top)]].Location
         IN  IF loc \in Range(before) THEN before ELSE Append(before, loc)

\* palette='viridis' with hue='Location': n hue levels get the colormap sampled
\* at i / (n + 1), i = 1..n, in level order; the colour is the colormap entry.
viridis(i, n) == (i * ViridisN) \div (n + 1)

RECURSIVE SumMetric(_, _, _)
SumMetric(df, top, loc) ==
    IF top = <<>> THEN 0
    ELSE SumMetric(df, Tail(top), loc)
         + (IF df[Head(top)].Location = loc THEN df[Head(top)].Metric ELSE 0)

CountLoc(df, top, loc) == Cardinality({i \in 1..Len(top) : df[top[i]].Location = loc})

\* sns.barplot(x=metric, y='Location', hue='Location', palette='viridis'): one
\* horizontal bar per Location of the selection, top to bottom in order of
\* appearance, its length the mean (sum over cnt) of that Location's metrics, its
\* colour the palette entry of its hue level. An empty selection draws nothing.
barplot(ax, df, top) ==
    LET lv == Levels(df, top)
    IN  [ax EXCEPT
            !.bars = [i \in 1..Len(lv) |->
                        [Location |-> lv[i],
                         sum |-> SumMetric(df, top, lv[i]),
                         cnt |-> CountLoc(df, top, lv[i]),
                         color |-> viridis(i, Len(lv))]],
            !.ops = Append(@, "barplot")]

\* Faulty variant of barplot_raises: an empty selection makes the plot call raise.
barplot_raises_empty(df, top) == top = <<>>

\* Whether the barplot call raises on this selection: it returns the axes
\* untouched for an empty selection and draws otherwise.
barplot_raises(df, top) == FALSE

\* f'{value:.2f}': integer part and the two decimals of the metric.
fmt2f(v) == <<v, 0, 0>>

\* for i, row in top_countries.iterrows(): ax.text(metric, Location, text)
value_labels(ax, df, top) ==
    [ax EXCEPT
        !.labels = [i \in 1..Len(top) |->
                      [x |-> df[top[i]].Metric, y |-> df[top[i]].Location,
                       text |-> fmt2f(df[top[i]].Metric)]],
        !.ops = Append(@, "value_labels")]

\* ax.set_title(f"Top 10 Populations - {frame}")
set_title(ax, frame) ==
    [ax EXCEPT !.title = <<"Top 10 Populations - ", frame>>,
               !.ops = Append(@, "set_title")]

\* save_animation.animate(frame)
animate_save(ax, df, frame, rc) ==
    LET a1 == clear(ax, rc)
        top == selectTopN(df, frame, TopN)
        a2 == barplot(a1, df, top)
        a3 == value_labels(a2, df, top)
    IN  set_title(a3, frame)

\* show_animation.animate(frame)
animate_show(ax, df, frame, rc) ==
    LET a1 == clear(ax, rc)
        a2 == setup_plotstyle(a1)
        a3 == setup_year(a2, frame)
        top == selectTopN(df, frame, TopN)
        a4 == barplot(a3, df, top)
        a5 == value_labels(a4, df, top)
    IN  set_title(a5, frame)

\* Whether an animate step for this frame raises: an injected render fault for
\* that time value, or the plot call itself.
animate_raises(df, frame, flt) ==
    \/ flt.kind = "render" /\ flt.time = frame
    \/ barplot_raises(df, selectTopN(df, frame, TopN))

\* Faulty variant of frame_at: the frames list walked from its end.
frame_at_reversed(frs, i) == frs[Len(frs) + 1 - i]

\* FuncAnimation(fig, animate, frames=frames): the i-th value the animation's
\* frame iterator yields is the i-th element of the list.
frame_at(frs, i) == frs[i]

\* pop_data['Time'].unique().tolist(): the time values in order of first appearance.
RECURSIVE unique_times(_)
unique_times(df) ==
    IF df = <<>> THEN <<>>
    ELSE LET before == unique_times(SubSeq(df, 1, Len(df) - 1))
             t == df[Len(df)].Time
         IN  IF t \in Range(before) THEN before ELSE Append(before, t)

\* -------------------------------------------------------------------- state
VARIABLES
    table,      \* the DataFrame handed to the entry point
    frames,     \* the frames list handed to save_animation / show_animation
    entry,      \* which entry point runs: "main", "save", "show" or "select"
    fault,      \* what the environment makes fail in this run
    mainPc,     \* position of the __main__ block
    mainExit,   \* exit status of the top-level process, -1 while it runs
    expPc,      \* position of save_animation (the export path)
    expIdx,     \* next element of frames the export renders
    expAx,      \* the axes of save_animation's own figure
    expRc,      \* rcParams style of the process that runs save_animation
    expCalls,   \* time values save_animation.animate was called with
    written,    \* canvases the writer grabbed, in order
    file,       \* what is at the output path "animation.mp4"
    showPc,     \* position of show_animation (the display path)
    showIdx,    \* next element of frames the display timer draws
    showAx,     \* the axes of show_animation's own figure
    showRc,     \* rcParams style of the process that runs show_animation
    showCalls,  \* time values show_animation.animate was called with
    shown,      \* time values drawn by the display's timer steps, in order
    selPc,      \* position of a stand-alone frame selection
    selN,       \* its top-N count
    selT,       \* its time value
    selOut      \* its result: row indices into table

vars ==
    <<table, frames, entry, fault, mainPc, mainExit, expPc, expIdx, expAx, expRc,
      expCalls, written, file, showPc, showIdx, showAx, showRc, showCalls, shown,
      selPc, selN, selT, selOut>>

inputVars == <<table, frames, entry, fault>>
mainVars == <<mainPc, mainExit>>
expVars == <<expPc, expIdx, expAx, expRc, expCalls, written, file>>
showVars == <<showPc, showIdx, showAx, showRc, showCalls, shown>>
selVars == <<selPc, selN, selT, selOut>>

NoFault == [kind |-> "none", time |-> 0]

\* What can go wrong in a run: the ffmpeg writer is not available, the output
\* path cannot be written, or rendering the frame of one time value raises.
Faults ==
    {NoFault, [kind |-> "no_encoder", time |-> 0], [kind |-> "unwritable", time |-> 0]}
        \cup {[kind |-> "render", time |-> t] : t \in Times}

Tables == {df \in SeqsUpTo(Rows, MaxRows) : Keyed(df)}
SelTables == SeqsUpTo(Rows, MaxSelRows)

\* Frames lists of distinct time values, in any order.
FrameLists ==
    {fs \in SeqsUpTo(Times, Cardinality(Times)) :
        \A i, j \in 1..Len(fs) : fs[i] = fs[j] => i = j}

NoFile == [exists |-> FALSE, frames |-> <<>>, complete |-> FALSE]

\* A run of the program: the __main__ block on a loaded table (frames are the
\* table's distinct time values), or a direct call of save_animation or of
\* show_animation with a table and a frames list of the caller's choice.
Init ==
    /\ table \in Tables
    /\ entry \in {"main", "save", "show"}
    /\ frames \in (IF entry = "main" THEN {unique_times(table)} ELSE FrameLists)
    /\ fault \in (IF entry = "show" THEN {f \in Faults : f.kind \in {"none", "render"}}
                  ELSE Faults)
    /\ mainPc = (IF entry = "main" THEN "start" ELSE "none")
    /\ mainExit = -1
    /\ expPc = (IF entry = "save" THEN "start" ELSE "idle")
    /\ expIdx = 1 /\ expAx = BlankAx /\ expRc = "default"
    /\ expCalls = <<>> /\ written = <<>> /\ file = NoFile
    /\ showPc = (IF entry = "show" THEN "start" ELSE "idle")
    /\ showIdx = 1 /\ showAx = BlankAx /\ showRc = "default"
    /\ showCalls = <<>> /\ shown = <<>>
    /\ selPc = "off" /\ selN = TopN /\ selT = 1 /\ selOut = <<>>

\* ------------------------------------------------------ export: save_animation
\* Faulty variant of export_rc: the export reads the rcParams of the process
\* that runs the display, as it would were the two paths threads of one process.
export_rc_shared(own, other) == other

\* The style the export's ax.clear() reads: the rcParams of its own process (own),
\* never those of the process that runs the display (other).
export_rc(own, other) == own

\* What writer.finish() leaves at the output path when the export is aborted by
\* a render error: ffmpeg closes the file over the frames piped so far.
aborted_file(w) == [exists |-> TRUE, frames |-> w, complete |-> FALSE]

\* plt.subplots, FuncAnimation and the start of anim.save: the writer lookup
\* raises when ffmpeg is not available, before anything is rendered or written.
ExportBegin ==
    /\ expPc = "start"
    /\ expAx' = BlankAx
    /\ expPc' = (IF fault.kind = "no_encoder" THEN "failed" ELSE "init")
    /\ UNCHANGED <<expIdx, expRc, expCalls, written, file>>
    /\ UNCHANGED <<inputVars, mainVars, showVars, selVars>>

\* anim._init_draw() inside writer.saving: animate on the first frame.
ExportInitDraw ==
    /\ expPc = "init"
    /\ IF frames = <<>>
       THEN /\ expPc' = "frames"
            /\ UNCHANGED <<expAx, expCalls, file>>
       ELSE /\ expCalls' = Append(expCalls, frame_at(frames, 1))
            /\ IF animate_raises(table, frame_at(frames, 1), fault)
               THEN /\ expPc' = "failed"
                    /\ expAx' = clear(expAx, export_rc(expRc, showRc))
                    /\ file' \in {NoFile, aborted_file(written)}
               ELSE /\ expPc' = "frames"
                    /\ expAx' = animate_save(expAx, table, frame_at(frames, 1),
                                             export_rc(expRc, showRc))
                    /\ UNCHANGED file
    /\ UNCHANGED <<expIdx, expRc, written>>
    /\ UNCHANGED <<inputVars, mainVars, showVars, selVars>>

\* One turn of the save loop: anim._draw_next_frame, then writer.grab_frame.
ExportFrame ==
    /\ expPc = "frames"
    /\ expIdx <= Len(frames)
    /\ expCalls' = Append(expCalls, frame_at(frames, expIdx))
    /\ IF animate_raises(table, frame_at(frames, expIdx), fault)
       THEN /\ expPc' = "failed"
            /\ expAx' = clear(expAx, export_rc(expRc, showRc))
            /\ file' \in (IF written = <<>> THEN {NoFile, aborted_file(written)}
                          ELSE {aborted_file(written)})
            /\ UNCHANGED <<expIdx, written>>
       ELSE /\ expAx' = animate_save(expAx, table, frame_at(frames, expIdx),
                                     export_rc(expRc, showRc))
            /\ IF fault.kind = "unwritable"
               THEN /\ expPc' = "failed"
                    /\ UNCHANGED <<expIdx, written, file>>
               ELSE /\ written' = Append(written, expAx')
                    /\ expIdx' = expIdx + 1
                    /\ UNCHANGED <<expPc, file>>
    /\ UNCHANGED expRc
    /\ UNCHANGED <<inputVars, mainVars, showVars, selVars>>

\* The frames are exhausted: writer.finish() closes the file.
ExportFinish ==
    /\ expPc = "frames"
    /\ expIdx > Len(frames)
    /\ IF fault.kind = "unwritable"
       THEN expPc' = "failed" /\ UNCHANGED file
       ELSE /\ expPc' = "done"
            /\ file' = [exists |-> TRUE, frames |-> written, complete |-> TRUE]
    /\ UNCHANGED <<expIdx, expAx, expRc, expCalls, written>>
    /\ UNCHANGED <<inputVars, mainVars, showVars, selVars>>

\* ------------------------------------------------------ display: show_animation
\* An exception raised by animate under plt.show(): it either propagates out of
\* show_animation or is reported by the GUI event loop, which leaves the view
\* open with its timer stopped.
ShowFailed(pc) == pc \in {"raised", "stalled"}

\* plt.subplots, FuncAnimation (interval=200, repeat left at its default, True)
\* and the start of plt.show().
ShowBegin ==
    /\ showPc = "start"
    /\ showPc' = "init"
    /\ showAx' = BlankAx
    /\ UNCHANGED <<showIdx, showRc, showCalls, shown>>
    /\ UNCHANGED <<inputVars, mainVars, expVars, selVars>>

\* The first draw of the figure starts the animation: _init_draw calls animate
\* on the first frame.
ShowInitDraw ==
    /\ showPc = "init"
    /\ IF frames = <<>>
       THEN /\ showPc' = "running"
            /\ UNCHANGED <<showAx, showRc, showCalls>>
       ELSE /\ showCalls' = Append(showCalls, frame_at(frames, 1))
            /\ IF animate_raises(table, frame_at(frames, 1), fault)
               THEN /\ ShowFailed(showPc')
                    /\ showAx' = clear(showAx, showRc)
                    /\ UNCHANGED showRc
               ELSE /\ showPc' = "running"
                    /\ showAx' = animate_show(showAx, table, frame_at(frames, 1), showRc)
                    /\ showRc' = set_style(showRc)
    /\ UNCHANGED <<showIdx, shown>>
    /\ UNCHANGED <<inputVars, mainVars, expVars, selVars>>

\* One timer step: animate on the next element of frames.
ShowStep ==
    /\ showPc = "running"
    /\ showIdx <= Len(frames)
    /\ Len(shown) < MaxShown
    /\ showCalls' = Append(showCalls, frame_at(frames, showIdx))
    /\ IF animate_raises(table, frame_at(frames, showIdx), fault)
       THEN /\ ShowFailed(showPc')
            /\ showAx' = clear(showAx, showRc)
            /\ UNCHANGED <<showIdx, showRc, shown>>
       ELSE /\ showAx' = animate_show(showAx, table, frame_at(frames, showIdx), showRc)
            /\ showRc' = set_style(showRc)
            /\ shown' = Append(shown, frame_at(frames, showIdx))
            /\ showIdx' = showIdx + 1
            /\ UNCHANGED showPc
    /\ UNCHANGED <<inputVars, mainVars, expVars, selVars>>

\* A timer step with the frames exhausted: repeat is on, so the animation draws
\* its initial frame again and restarts the sequence.
ShowRepeat ==
    /\ showPc = "running"
    /\ showIdx > Len(frames)
    /\ frames # <<>>
    /\ Len(shown) < MaxShown
    /\ showCalls' = Append(showCalls, frame_at(frames, 1))
    /\ IF animate_raises(table, frame_at(frames, 1), fault)
       THEN /\ ShowFailed(showPc')
            /\ showAx' = clear(showAx, showRc)
            /\ UNCHANGED <<showIdx, showRc>>
       ELSE /\ showAx' = animate_show(showAx, table, frame_at(frames, 1), showRc)
            /\ showRc' = set_style(showRc)
            /\ showIdx' = 1
            /\ UNCHANGED showPc
    /\ UNCHANGED shown
    /\ UNCHANGED <<inputVars, mainVars, expVars, selVars>>

\* The viewer closes the window (or the backend is not interactive and
\* plt.show() returns at once): show_animation returns.
ShowClose ==
    /\ showPc \in {"init", "running", "stalled"}
    /\ showPc' = "closed"
    /\ UNCHANGED <<showIdx, showAx, showRc, showCalls, shown>>
    /\ UNCHANGED <<inputVars, mainVars, expVars, selVars>>

\* ------------------------------------------------------------------ __main__
ExportEnded == expPc \in {"done", "failed"}

\* Faulty variant of join_returns: the join does not wait.
join_nowait(pc) == TRUE

\* p.join() returns only once the export process has ended, however it ended.
join_returns(pc) == pc \in {"done", "failed"}

\* p = Process(target=save_animation, args=(pop_data, frames)); p.start()
MainStartExport ==
    /\ mainPc = "start"
    /\ mainPc' = "call_show"
    /\ expPc' = "start"
    /\ UNCHANGED <<mainExit, expIdx, expAx, expRc, expCalls, written, file>>
    /\ UNCHANGED <<inputVars, showVars, selVars>>

\* show_animation(pop_data, frames) is entered in the main process.
MainCallShow ==
    /\ mainPc = "call_show"
    /\ mainPc' = "in_show"
    /\ showPc' = "start"
    /\ UNCHANGED <<mainExit, showIdx, showAx, showRc, showCalls, shown>>
    /\ UNCHANGED <<inputVars, expVars, selVars>>

\* show_animation returned: the main process reaches p.join().
MainShowReturned ==
    /\ mainPc = "in_show"
    /\ showPc = "closed"
    /\ mainPc' = "join"
    /\ UNCHANGED mainExit
    /\ UNCHANGED <<inputVars, expVars, showVars, selVars>>

\* show_animation raised: the exception leaves the __main__ block, p.join() on
\* the last line is skipped.
MainShowRaised ==
    /\ mainPc = "in_show"
    /\ showPc = "raised"
    /\ mainPc' = "unwinding"
    /\ UNCHANGED mainExit
    /\ UNCHANGED <<inputVars, expVars, showVars, selVars>>

\* p.join() returns once the export process has ended; its exit code is not
\* read, and the main process ends with status 0.
MainJoin ==
    /\ mainPc = "join"
    /\ join_returns(expPc)
    /\ mainPc' = "done"
    /\ mainExit' = 0
    /\ UNCHANGED <<inputVars, expVars, showVars, selVars>>

\* Interpreter exit after the uncaught exception: multiprocessing's exit handler
\* joins the non-daemon export process, then the process ends with status 1.
MainExit ==
    /\ mainPc = "unwinding"
    /\ join_returns(expPc)
    /\ mainPc' = "exited"
    /\ mainExit' = 1
    /\ UNCHANGED <<inputVars, expVars, showVars, selVars>>

Next ==
    \/ ExportBegin
    \/ ExportInitDraw
    \/ ExportFrame
    \/ ExportFinish
    \/ ShowBegin
    \/ ShowInitDraw
    \/ ShowStep
    \/ ShowRepeat
    \/ ShowClose
    \/ MainStartExport
    \/ MainCallShow
    \/ MainShowReturned
    \/ MainShowRaised
    \/ MainJoin
    \/ MainExit

Spec == Init /\ [][Next]_vars

\* ----------------------------------------------- the frame selection on its own
\* The first two statements of an animate step, applied to any table, time value
\* and top-N count.
InitSel ==
    /\ table \in SelTables
    /\ frames = <<>>
    /\ entry = "select"
    /\ fault = NoFault
    /\ mainPc = "none" /\ mainExit = -1
    /\ expPc = "idle" /\ expIdx = 1 /\ expAx = BlankAx /\ expRc = "default"
    /\ expCalls = <<>> /\ written = <<>> /\ file = NoFile
    /\ showPc = "idle" /\ showIdx = 1 /\ showAx = BlankAx /\ showRc = "default"
    /\ showCalls = <<>> /\ shown = <<>>
    /\ selPc = "call"
    /\ selN \in 0..MaxN
    /\ selT \in Times
    /\ selOut = <<>>

SelectTopN ==
    /\ selPc = "call"
    /\ selOut' = selectTopN(table, selT, selN)
    /\ selPc' = "done"
    /\ UNCHANGED <<selN, selT>>
    /\ UNCHANGED <<inputVars, mainVars, expVars, showVars>>

NextSel == SelectTopN

SpecSel == InitSel /\ [][NextSel]_vars

\* ===================================================================== claims
Matching(df, T) == {i \in 1..Len(df) : df[i].Time = T}

Title(f) == <<"Top 10 Populations - ", f>>

\* C1: the frame selection returns min(n, number of matching rows) rows, all of
\* them rows of the table whose Time is T, no row twice, sorted by Metric
\* descending, and no matching row left out has a greater Metric than one
\* returned.
C1_TopNSelection ==
    selPc = "done" =>
        LET m == Matching(table, selT)
        IN  /\ Len(selOut) = Min(selN, Cardinality(m))
            /\ Range(selOut) \subseteq m
            /\ \A i, j \in 1..Len(selOut) : selOut[i] = selOut[j] => i = j
            /\ \A i, j \in 1..Len(selOut) :
                   i < j => table[selOut[i]].Metric >= table[selOut[j]].Metric
            /\ \A x \in m \ Range(selOut) : \A k \in Range(selOut) :
                   table[x].Metric <= table[k].Metric

\* C1 witness: three rows match, the top two are returned and the row left out
\* has a strictly smaller Metric than both.
C1_Witness ==
    /\ selPc = "done"
    /\ selN = 2
    /\ Cardinality(Matching(table, selT)) = 3
    /\ Len(selOut) = 2
    /\ \E x \in Matching(table, selT) \ Range(selOut) :
           \A k \in Range(selOut) : table[x].Metric < table[k].Metric

\* C6: rows of equal Metric come out in table order, and at the cut-off a row
\* left out that ties with a returned row stands later in the table.
C6_StableTies ==
    selPc = "done" =>
        /\ \A i, j \in 1..Len(selOut) :
               (i < j /\ table[selOut[i]].Metric = table[selOut[j]].Metric)
                   => selOut[i] < selOut[j]
        /\ \A x \in Matching(table, selT) \ Range(selOut) : \A k \in Range(selOut) :
               table[x].Metric = table[k].Metric => k < x

\* C6 witness: two returned rows tie, and a third row with the same Metric is
\* cut off.
C6_Witness ==
    /\ selPc = "done"
    /\ Len(selOut) = 2
    /\ table[selOut[1]].Metric = table[selOut[2]].Metric
    /\ \E x \in Matching(table, selT) \ Range(selOut) :
           table[x].Metric = table[selOut[1]].Metric

IsPrefix(s, t) == Len(s) <= Len(t) /\ \A i \in 1..Len(s) : s[i] = t[i]

\* The time values of a sequence of grabbed canvases, read off their titles.
TimesOf(w) == [i \in 1..Len(w) |-> w[i].title[2]]

\* C2 as stated: on either path the frames produced are the frames list in
\* order, one frame per time value and no more.
C2_OneFramePerTimeValue ==
    /\ IsPrefix(TimesOf(written), frames)
    /\ expPc = "done" => TimesOf(written) = frames
    /\ IsPrefix(shown, frames)

\* C2 amended: the export writes the frames list in order, one frame per
\* element, all of them when it completes; the display draws the frames list in
\* order and, the list exhausted, starts over from its first element until the
\* view is closed.
C2_FrameOrder ==
    /\ IsPrefix(TimesOf(written), frames)
    /\ expPc = "done" => TimesOf(written) = frames
    /\ \A i \in 1..Len(shown) : shown[i] = frames[((i - 1) % Len(frames)) + 1]

\* C2 witness: a top-level run over two time values whose export wrote both
\* frames and whose display went round the list and started over.
C2_Witness ==
    /\ entry = "main"
    /\ Len(frames) = 2
    /\ expPc = "done"
    /\ Len(written) = 2
    /\ Len(shown) > Len(frames)

\* C3: in the top-level run the export is started before the display, the step
\* that closes the view leaves the export as it is, and the run ends only once
\* the export has ended.
C3_ExportJoined ==
    /\ [](entry = "main" =>
            /\ showPc # "idle" => expPc # "idle"
            /\ mainPc \in {"done", "exited"} => ExportEnded)
    /\ [][(showPc # "closed" /\ showPc' = "closed") => UNCHANGED expVars]_vars

\* C3 witness: the view is closed, the main process stands at p.join() and the
\* export is still writing frames.
C3_Witness ==
    /\ entry = "main"
    /\ mainPc = "join"
    /\ showPc = "closed"
    /\ expPc = "frames"
    /\ Len(written) = 1
    /\ Len(frames) = 2

\* C4: the top-level run waits for the export, and a failure of either task
\* reaches the top-level caller: the run does not end with status 0 when the
\* export or the display failed.
C4_FailuresReported ==
    (entry = "main" /\ mainPc \in {"done", "exited"}) =>
        /\ ExportEnded
        /\ expPc = "failed" => mainExit # 0
        /\ showPc = "raised" => mainExit # 0

\* Colours of the bars of one Location over a sequence of canvases.
BarColors(w, loc) ==
    UNION {{w[i].bars[k].color :
                k \in {k \in 1..Len(w[i].bars) : w[i].bars[k].Location = loc}} :
            i \in 1..Len(w)}

\* C5: within one run every Location has one bar colour over all frames.
C5_ColorByLabel ==
    \A loc \in Locations : Cardinality(BarColors(written, loc)) <= 1

ExportAlone(df, frs) ==
    [i \in 1..Len(frs) |-> animate_save(BlankAx, df, frs[i], "default")]

\* C8: with nothing made to fail both paths run without failing, and a completed
\* export has written exactly the frames an export run on its own writes,
\* whatever the display did meanwhile.
C8_NoInterference ==
    /\ fault.kind = "none" => (expPc # "failed" /\ ~ShowFailed(showPc))
    /\ expPc = "done" =>
           /\ written = ExportAlone(table, frames)
           /\ file = [exists |-> TRUE, frames |-> ExportAlone(table, frames),
                      complete |-> TRUE]

\* C8 witness: a top-level run in which the display had applied its style before
\* the export rendered its frames, and both went through their frames.
C8_Witness ==
    /\ entry = "main"
    /\ fault.kind = "none"
    /\ Len(frames) = 2
    /\ expPc = "done"
    /\ showRc = "whitegrid"
    /\ shown = frames
    /\ showPc = "closed"
    /\ mainPc = "done"

\* C9: an export that failed made no animate call after the failing one (its
\* calls are the initial draw, one per frame written and at most the failing
\* one) and left no file holding frames of the aborted run at the output path.
C9_NoPartialOutput ==
    expPc = "failed" =>
        /\ Len(expCalls) <= Len(written) + 2
        /\ file.frames = <<>>

\* C10: whenever both paths have rendered a frame, the two animate steps made
\* the same calls on their axes: clear, setup_plotstyle, setup_year, barplot,
\* value labels, set_title.
C10_SameCalls ==
    (expAx.title # <<>> /\ showAx.title # <<>>) =>
        /\ expAx.ops = showAx.ops
        /\ expAx.ops = <<"clear", "setup_plotstyle", "setup_year", "barplot",
                         "value_labels", "set_title">>

====
